---- MODULE Spec2Model ----
(***************************************************************************)
(* A model of dbt's project configuration resolver,                        *)
(* core/dbt/config/project.py: the two-phase load of dbt_project.yml       *)
(* (partial_load, render), the assembly of a Project                       *)
(* (from_project_config), its canonical form (to_project_config), the      *)
(* version check (validate_version), VarProvider and get_selector.         *)
(*                                                                         *)
(* Python values are tagged records [t |-> <type>, v |-> <payload>], so    *)
(* that isinstance tests and "is None" are tests of the tag.  A dict is a  *)
(* TLA+ function from its keys; a key that is absent is not in DOMAIN.     *)
(***************************************************************************)
EXTENDS Integers, Sequences, FiniteSets, TLC

VARIABLES
    fs,         \* the files under the project root: project, packages, selectors
    installed,  \* the major version get_installed_version() reports
    renderer,   \* the renderer handed to from_project_root
    pc,         \* the position of the running call
    log,        \* the steps the running call has executed, in order
    loc,        \* the locals of the running call
    project,    \* the Project the call has built (None before)
    err,        \* the exception the call has raised (NoError if none)
    call,       \* the running call: its name and arguments
    ret         \* the last method call on the built Project and its outcome

vars == <<fs, installed, renderer, pc, log, loc, project, err, call, ret>>

(***************************************************************************)
(* Bounds of the model.                                                    *)
(***************************************************************************)
\* versions are 0.0.0 .. MaxVersion.0.0
MaxVersion == 2
\* a required-version list holds at most MaxSpecs specifiers
MaxSpecs == 2

(***************************************************************************)
(* Python values.                                                          *)
(***************************************************************************)
None == [t |-> "none"]
PyStr(s) == [t |-> "str", v |-> s]
PyInt(n) == [t |-> "int", v |-> n]
PyFloat(n) == [t |-> "float", v |-> n]
PyList(s) == [t |-> "list", v |-> s]
PyDict(f) == [t |-> "dict", v |-> f]
PyBool(b) == [t |-> "bool", v |-> b]
EmptyDict == PyDict(<<>>)
\* a list of strings
StrList(seq) == PyList([i \in DOMAIN seq |-> PyStr(seq[i])])

IsNone(x) == x.t = "none"
IsStr(x) == x.t = "str"
IsList(x) == x.t = "list"
IsDict(x) == x.t = "dict"

\* Python's x != n for an int n: int and float compare by value, others differ
PyNeInt(x, n) == ~(x.t \in {"int", "float"} /\ x.v = n)

\* dict.get(key, default)
Get(d, k, default) == IF k \in DOMAIN d THEN d[k] ELSE default

NoError == [type |-> "none"]
\* an exception; DbtProjectError carries the path of the file it is about
RaiseAt(type, msg, path) == [type |-> type, msg |-> msg, path |-> path]
Raise(type, msg) == RaiseAt(type, msg, None)
Raised(e) == e.type # "none"

Range(s) == {s[i] : i \in DOMAIN s}

RECURSIVE Flatten(_)
\* itertools.chain over a sequence of sequences
Flatten(ss) == IF ss = <<>> THEN <<>> ELSE Head(ss) \o Flatten(Tail(ss))

(***************************************************************************)
(* dbt.semver: version specifiers.  A version n stands for n.0.0; a        *)
(* version string is the sequence of its comma-separated segments.         *)
(***************************************************************************)
Matchers == {"=", ">", ">=", "<", "<="}
Versions == 0..MaxVersion
VersionSpecifiers == [matcher : Matchers, major : Versions]

VersionText(n) == ToString(n)

\* VersionSpecifier.to_version_string
to_version_string(x) == <<x.matcher \o VersionText(x.major)>>

\* VersionSpecifier.from_version_string: a string with a comma in it, or one
\* that is no [matcher]version, raises SemverException
from_version_string(s) ==
    LET Parses == {x \in [m : Matchers \cup {""}, n : Versions] :
                       s[1] = x.m \o VersionText(x.n)}
    IN  IF Len(s) # 1 \/ Parses = {}
        THEN [ok |-> FALSE, exc |-> "SemverException"]
        ELSE LET x == CHOOSE y \in Parses : TRUE
             IN  [ok |-> TRUE,
                  val |-> [matcher |-> IF x.m = "" THEN "=" ELSE x.m,
                           major |-> x.n]]

\* whether version point p lies in the region of specifier x; points are
\* half versions, version n being the point 2n, so that versions are dense
Admits(x, p) ==
    CASE x.matcher = "="  -> p = 2 * x.major
      [] x.matcher = ">"  -> p > 2 * x.major
      [] x.matcher = ">=" -> p >= 2 * x.major
      [] x.matcher = "<"  -> p < 2 * x.major
      [] x.matcher = "<=" -> p <= 2 * x.major

Points == (-1)..(2 * MaxVersion + 1)

\* dbt.semver.versions_compatible(*args)
versions_compatible(specs) ==
    \/ Len(specs) = 1
    \/ \E p \in Points : \A i \in DOMAIN specs : Admits(specs[i], p)

\* dbt.version.get_installed_version()
get_installed_version == [matcher |-> "=", major |-> installed]

(***************************************************************************)
(* _parse_versions and validate_version.                                   *)
(***************************************************************************)
\* str.split(','): the segments, each a string of its own
Split(s) == [i \in DOMAIN s |-> <<s[i]>>]

_parse_versions(versions) ==
    LET strings == IF IsStr(versions) THEN Split(versions.v)
                   ELSE [i \in DOMAIN versions.v |-> versions.v[i].v]
        parsed == [i \in DOMAIN strings |-> from_version_string(strings[i])]
    IN  IF \E i \in DOMAIN parsed : ~parsed[i].ok
        THEN [ok |-> FALSE, exc |-> "SemverException"]
        ELSE [ok |-> TRUE, val |-> [i \in DOMAIN parsed |-> parsed[i].val]]

VersionStrings(required) ==
    [i \in DOMAIN required |-> to_version_string(required[i])]

IMPOSSIBLE_VERSION_ERROR(package, version_spec) ==
    [template |-> "The package version requirement can never be satisfied",
     package |-> package, version_spec |-> version_spec]

INVALID_VERSION_ERROR(package, inst, version_spec) ==
    [template |-> "This version of dbt is not supported with the package",
     package |-> package, installed |-> inst, version_spec |-> version_spec]

\* a validate_version that tests the installed version first
validate_version_swapped(required, project_name) ==
    IF ~versions_compatible(<<get_installed_version>> \o required)
    THEN Raise("DbtProjectError",
               INVALID_VERSION_ERROR(project_name,
                   to_version_string(get_installed_version),
                   VersionStrings(required)))
    ELSE IF ~versions_compatible(required)
    THEN Raise("DbtProjectError",
               IMPOSSIBLE_VERSION_ERROR(project_name, VersionStrings(required)))
    ELSE NoError

validate_version(required, project_name) ==
    IF ~versions_compatible(required)
    THEN Raise("DbtProjectError",
               IMPOSSIBLE_VERSION_ERROR(project_name, VersionStrings(required)))
    ELSE IF ~versions_compatible(<<get_installed_version>> \o required)
    THEN Raise("DbtProjectError",
               INVALID_VERSION_ERROR(project_name,
                   to_version_string(get_installed_version),
                   VersionStrings(required)))
    ELSE NoError

(***************************************************************************)
(* The manifests on disk.  A file is [exists |-> FALSE] or                 *)
(* [exists |-> TRUE, yaml |-> <the value load_yaml_text returns>].         *)
(***************************************************************************)
NoFile == [exists |-> FALSE]
File(value) == [exists |-> TRUE, yaml |-> value]

ProjectRoot == "/proj"
ProjectYaml == "/proj/dbt_project.yml"

\* a templated scalar, which the renderer evaluates: {{ var(name) }}
Template(name) == [t |-> "template", v |-> name]
\* a YAML alias to the enclosing root mapping: a self-referential node
BackRef == [t |-> "backref"]

_raw_project_from(project_root) ==
    IF ~fs.project.exists
    THEN [ok |-> FALSE,
          exc |-> Raise("DbtProjectError",
                        [template |-> "no dbt_project.yml found at expected path",
                         expected |-> ProjectYaml])]
    ELSE IF ~IsDict(fs.project.yaml)
    THEN [ok |-> FALSE,
          exc |-> Raise("DbtProjectError",
                        [template |-> "dbt_project.yml does not parse to a dictionary"])]
    ELSE [ok |-> TRUE, val |-> fs.project.yaml.v]

package_data_from_root(project_root) ==
    IF fs.packages.exists THEN fs.packages.yaml ELSE None

\* dbt.config.selectors.selector_data_from_root
selector_data_from_root(project_root) ==
    IF fs.selectors.exists THEN fs.selectors.yaml ELSE None

InvalidConfigVersion(config_version) ==
    RaiseAt("DbtProjectError",
            [template |-> "Invalid config version: {config_version}, expected 2",
             config_version |-> config_version],
            PyStr(ProjectYaml))

\* a partial_load that takes an absent config-version for 2
ConfigVersionOf_default2(project_dict) ==
    Get(project_dict, "config-version", PyInt(2))

\* the config-version test of partial_load, lines 631-636
ConfigVersionOf(project_dict) == Get(project_dict, "config-version", PyInt(1))

ConfigVersionAccepted(config_version) == ~PyNeInt(config_version, 2)

PartialProject(project_dict, verify_version) ==
    [config_version |-> ConfigVersionOf(project_dict),
     profile_name |-> Get(project_dict, "profile", None),
     project_name |-> Get(project_dict, "name", None),
     project_root |-> ProjectRoot,
     project_dict |-> project_dict,
     verify_version |-> verify_version]

(***************************************************************************)
(* The renderer (dbt.config.renderer): it evaluates the templates of a     *)
(* tree against its context, fails on an undefined variable, and its       *)
(* traversal fails on a self-referential tree.                             *)
(***************************************************************************)
RECURSIVE HasTag(_, _)
\* whether a node with tag `tag` occurs in the tree
HasTag(value, tag) ==
    \/ value.t = tag
    \/ /\ value.t = "dict"
       /\ \E k \in DOMAIN value.v : HasTag(value.v[k], tag)
    \/ /\ value.t = "list"
       /\ \E i \in DOMAIN value.v : HasTag(value.v[i], tag)

RECURSIVE Templates(_)
Templates(value) ==
    CASE value.t = "template" -> {value.v}
      [] value.t = "dict" -> UNION {Templates(value.v[k]) : k \in DOMAIN value.v}
      [] value.t = "list" -> UNION {Templates(value.v[i]) : i \in DOMAIN value.v}
      [] OTHER -> {}

RECURSIVE Evaluate(_, _)
Evaluate(value, context) ==
    CASE value.t = "template" -> context[value.v]
      [] value.t = "dict" ->
            PyDict([k \in DOMAIN value.v |-> Evaluate(value.v[k], context)])
      [] value.t = "list" ->
            PyList([i \in DOMAIN value.v |-> Evaluate(value.v[i], context)])
      [] OTHER -> value

render_data(rdr, data) ==
    IF HasTag(data, "backref")
    THEN [ok |-> FALSE,
          exc |-> Raise("RecursionException",
                        [template |-> "Cycle detected in deep_map"])]
    ELSE IF ~(Templates(data) \subseteq DOMAIN rdr.context)
    THEN [ok |-> FALSE,
          exc |-> Raise("CompilationException",
                        [template |-> "Could not render: undefined variable"])]
    ELSE [ok |-> TRUE, val |-> Evaluate(data, rdr.context)]

(***************************************************************************)
(* Project._preprocess: the handlers by key path, and dbt.utils.deep_map.  *)
(***************************************************************************)
_list_if_none(value) == IF IsNone(value) THEN PyList(<<>>) ELSE value

_dict_if_none(value) == IF IsNone(value) THEN EmptyDict ELSE value

_list_if_none_or_string(value) ==
    LET value1 == _list_if_none(value)
    IN  IF IsStr(value1) THEN PyList(<<value1>>) ELSE value1

HandlerBlocks == {"models", "seeds", "snapshots"}

\* the handlers table of _preprocess: key path -> the name of its handler
handlers ==
    [kp \in {<<"on-run-start">>, <<"on-run-end">>} |-> "_list_if_none_or_string"]
    @@ [kp \in {<<k>> : k \in HandlerBlocks} |-> "_dict_if_none"]
    @@ [kp \in {<<k, "vars">> : k \in HandlerBlocks} |-> "_dict_if_none"]
    @@ [kp \in {<<k, h>> : k \in HandlerBlocks, h \in {"pre-hook", "post-hook"}}
            |-> "_list_if_none_or_string"]
    @@ (<<"seeds", "column_types">> :> "_dict_if_none")

converter(value, keypath) ==
    IF keypath \in DOMAIN handlers
    THEN CASE handlers[keypath] = "_list_if_none_or_string" ->
                  _list_if_none_or_string(value)
           [] handlers[keypath] = "_dict_if_none" -> _dict_if_none(value)
    ELSE value

\* the key-path entry of a list index: never equal to a mapping key
IndexKey(i) == "[" \o ToString(i - 1) \o "]"

RECURSIVE _deep_map(_, _)
_deep_map(value, keypath) ==
    LET mapped == converter(value, keypath)
    IN  CASE mapped.t = "dict" ->
                PyDict([k \in DOMAIN mapped.v |->
                            _deep_map(mapped.v[k], Append(keypath, k))])
          [] mapped.t = "list" ->
                PyList([i \in DOMAIN mapped.v |->
                            _deep_map(mapped.v[i], Append(keypath, IndexKey(i)))])
          [] OTHER -> mapped

\* deep_map raises RecursionException when the traversal re-enters a node
deep_map(value) ==
    IF HasTag(value, "backref")
    THEN [ok |-> FALSE,
          exc |-> Raise("RecursionException",
                        [template |-> "Cycle detected in deep_map"])]
    ELSE [ok |-> TRUE, val |-> _deep_map(value, <<>>)]

_preprocess(project_dict) ==
    LET r == deep_map(PyDict(project_dict))
    IN  IF r.ok THEN [ok |-> TRUE, val |-> r.val.v] ELSE r

(***************************************************************************)
(* dbt.contracts.project.Project (ProjectContract), the schema validator:  *)
(* from_dict checks a mapping with hyphenated keys and yields the checked  *)
(* object, whose absent optional fields are None.                          *)
(***************************************************************************)
ListStrKeys ==
    {"source-paths", "macro-paths", "data-paths", "test-paths",
     "analysis-paths", "docs-paths", "asset-paths", "snapshot-paths",
     "clean-targets", "on-run-start", "on-run-end"}
OptStrKeys ==
    {"project-root", "profile", "target-path", "log-path", "modules-path"}
BlockKeys == {"models", "seeds", "snapshots", "sources"}
OptDictKeys == {"vars", "quoting"}
RequiredKeys == {"name", "version", "config-version"}
ContractKeys ==
    RequiredKeys \cup ListStrKeys \cup OptStrKeys \cup BlockKeys
    \cup OptDictKeys \cup {"require-dbt-version", "packages", "query-comment"}

IsStrList(v) == IsList(v) /\ \A i \in DOMAIN v.v : IsStr(v.v[i])

NoValue == [t |-> "novalue"]
DEFAULT_QUERY_COMMENT == "{{ default query comment macro }}"
\* dbt.contracts.connection.QueryComment(comment, append)
QueryComment(comment, append) ==
    [t |-> "QueryComment", comment |-> comment, append |-> append]

IsQueryCommentDict(v) ==
    /\ IsDict(v)
    /\ DOMAIN v.v \subseteq {"comment", "append"}
    /\ "comment" \in DOMAIN v.v => IsStr(v.v["comment"])
    /\ "append" \in DOMAIN v.v => v.v["append"].t = "bool"

TypeOk(k, v) ==
    CASE k = "name" -> IsStr(v)
      [] k = "version" -> v.t \in {"str", "float"}
      [] k = "config-version" -> v.t = "int"
      [] k \in ListStrKeys -> IsNone(v) \/ IsStrList(v)
      [] k \in OptStrKeys -> IsNone(v) \/ IsStr(v)
      [] k \in BlockKeys -> IsDict(v)
      [] k \in OptDictKeys -> IsNone(v) \/ IsDict(v)
      [] k = "require-dbt-version" -> IsNone(v) \/ IsStr(v) \/ IsStrList(v)
      [] k = "packages" -> IsList(v)
      [] k = "query-comment" ->
            IsNone(v) \/ IsStr(v) \/ v.t = "novalue" \/ IsQueryCommentDict(v)
      [] OTHER -> FALSE

SchemaProblems(d) ==
    {[key |-> k, problem |-> "is a required property"] :
        k \in RequiredKeys \ DOMAIN d}
    \cup {[key |-> k, problem |-> "is not valid under the schema"] :
        k \in {x \in DOMAIN d : ~TypeOk(x, d[x])}}

QueryCommentOf(v) ==
    IF IsDict(v)
    THEN QueryComment(Get(v.v, "comment", PyStr(DEFAULT_QUERY_COMMENT)).v,
                      Get(v.v, "append", PyBool(FALSE)).v)
    ELSE v

ProjectContract_from_dict(d) ==
    IF SchemaProblems(d) # {}
    THEN [ok |-> FALSE,
          exc |-> Raise("ValidationError", SchemaProblems(d))]
    ELSE [ok |-> TRUE, val |->
          [name |-> d["name"],
           version |-> d["version"],
           config_version |-> d["config-version"],
           project_root |-> Get(d, "project-root", None),
           profile |-> Get(d, "profile", None),
           source_paths |-> Get(d, "source-paths", None),
           macro_paths |-> Get(d, "macro-paths", None),
           data_paths |-> Get(d, "data-paths", None),
           test_paths |-> Get(d, "test-paths", None),
           analysis_paths |-> Get(d, "analysis-paths", None),
           docs_paths |-> Get(d, "docs-paths", None),
           asset_paths |-> Get(d, "asset-paths", None),
           target_path |-> Get(d, "target-path", None),
           snapshot_paths |-> Get(d, "snapshot-paths", None),
           clean_targets |-> Get(d, "clean-targets", None),
           log_path |-> Get(d, "log-path", None),
           modules_path |-> Get(d, "modules-path", None),
           quoting |-> Get(d, "quoting", None),
           on_run_start |-> Get(d, "on-run-start", None),
           on_run_end |-> Get(d, "on-run-end", None),
           require_dbt_version |-> Get(d, "require-dbt-version", None),
           models |-> Get(d, "models", EmptyDict),
           seeds |-> Get(d, "seeds", EmptyDict),
           snapshots |-> Get(d, "snapshots", EmptyDict),
           sources |-> Get(d, "sources", EmptyDict),
           vars |-> Get(d, "vars", None),
           packages |-> Get(d, "packages", PyList(<<>>)),
           query_comment |-> QueryCommentOf(Get(d, "query-comment", None))]]

\* dbt.exceptions.validator_error_message: the validator's text, verbatim
validator_error_message(e) ==
    [template |-> "Invalid project config", validator |-> e.msg]

(***************************************************************************)
(* The packages and selectors collaborators.                               *)
(***************************************************************************)
MALFORMED_PACKAGE_ERROR(error) ==
    [template |-> "The packages.yml file in this project is malformed",
     error |-> error]

\* dbt.contracts.project.PackageConfig.from_dict
PackageConfig_from_dict(data) ==
    IF /\ IsDict(data)
       /\ DOMAIN data.v = {"packages"}
       /\ IsList(data.v["packages"])
       /\ \A i \in DOMAIN data.v["packages"].v : IsDict(data.v["packages"].v[i])
    THEN [ok |-> TRUE, val |-> [packages |-> data.v["packages"]]]
    ELSE [ok |-> FALSE,
          exc |-> Raise("ValidationError",
                        [template |-> "packages is not valid under the schema"])]

\* PackageConfig.to_dict
PackageConfig_to_dict(packages) == ("packages" :> packages.packages)

package_config_from_data(packages_data) ==
    LET data == IF IsNone(packages_data)
                THEN PyDict("packages" :> PyList(<<>>))
                ELSE packages_data
        r == PackageConfig_from_dict(data)
    IN  IF r.ok THEN r
        ELSE [ok |-> FALSE,
              exc |-> Raise("DbtProjectError", MALFORMED_PACKAGE_ERROR(r.exc.msg))]

\* dbt.config.selectors.selector_config_from_data: the mapping from selector
\* name to its selection spec
selector_config_from_data(selectors_data) ==
    LET data == IF IsNone(selectors_data)
                THEN PyDict("selectors" :> PyList(<<>>))
                ELSE selectors_data
    IN  IF /\ IsDict(data)
           /\ DOMAIN data.v = {"selectors"}
           /\ IsList(data.v["selectors"])
           /\ \A i \in DOMAIN data.v["selectors"].v :
                 /\ IsDict(data.v["selectors"].v[i])
                 /\ DOMAIN data.v["selectors"].v[i].v = {"name", "definition"}
        THEN LET items == data.v["selectors"].v
             IN  [ok |-> TRUE, val |->
                    [n \in {items[i].v["name"].v : i \in DOMAIN items} |->
                        LET i == CHOOSE j \in DOMAIN items :
                                   /\ items[j].v["name"].v = n
                                   /\ \A l \in DOMAIN items :
                                        items[l].v["name"].v = n => l <= j
                        IN  items[i].v["definition"]]]
        ELSE [ok |-> FALSE,
              exc |-> Raise("ValidationError",
                            [template |-> "selectors is not valid under the schema"])]

(***************************************************************************)
(* Project: the defaults of from_project_config, the canonical form and    *)
(* the self-validation.                                                    *)
(***************************************************************************)
value_or(value, default) == IF IsNone(value) THEN default ELSE value

\* an _all_source_paths that chains the paths in the order of the dataclass
_all_source_paths_reordered(source_paths, data_paths, snapshot_paths, analysis_paths, macro_paths) ==
    PyList(Flatten(<<source_paths.v, macro_paths.v, data_paths.v,
                     analysis_paths.v, snapshot_paths.v>>))

_all_source_paths(source_paths, data_paths, snapshot_paths, analysis_paths, macro_paths) ==
    PyList(Flatten(<<source_paths.v, data_paths.v, snapshot_paths.v,
                     analysis_paths.v, macro_paths.v>>))

\* Python truth of a query-comment setting: None and '' are false
Falsy(v) == IsNone(v) \/ (IsStr(v) /\ v.v = "")

_query_comment_from_cfg(cfg_query_comment) ==
    IF Falsy(cfg_query_comment) THEN QueryComment("", FALSE)
    ELSE IF IsStr(cfg_query_comment)
    THEN QueryComment(cfg_query_comment.v, FALSE)
    ELSE IF cfg_query_comment.t = "novalue"
    THEN QueryComment(DEFAULT_QUERY_COMMENT, FALSE)
    ELSE cfg_query_comment

\* QueryComment.to_dict
QueryComment_to_dict(qc) ==
    PyDict(("comment" :> PyStr(qc.comment)) @@ ("append" :> PyBool(qc.append)))

VarProvider(vars_dict) == [vars |-> vars_dict]
\* VarProvider.to_dict
VarProvider_to_dict(self) == self.vars

\* lines 394-455 of from_project_config: the fields of the Project from the
\* checked object cfg
Defaults(cfg) ==
    IF IsNone(cfg.project_root)
    THEN [ok |-> FALSE,
          exc |-> Raise("DbtProjectError",
                        [template |-> "cfg must have a project root!"])]
    ELSE IF PyNeInt(cfg.config_version, 2)
    THEN [ok |-> FALSE,
          exc |-> Raise("ValidationError",
                        [template |-> "Got unsupported config_version",
                         config_version |-> cfg.config_version])]
    ELSE
    LET source_paths == value_or(cfg.source_paths, StrList(<<"models">>))
        macro_paths == value_or(cfg.macro_paths, StrList(<<"macros">>))
        data_paths == value_or(cfg.data_paths, StrList(<<"data">>))
        test_paths == value_or(cfg.test_paths, StrList(<<"test">>))
        analysis_paths == value_or(cfg.analysis_paths, StrList(<<>>))
        snapshot_paths == value_or(cfg.snapshot_paths, StrList(<<"snapshots">>))
        all_source_paths == _all_source_paths(source_paths, data_paths,
                                snapshot_paths, analysis_paths, macro_paths)
        target_path == value_or(cfg.target_path, PyStr("target"))
    IN  [ok |-> TRUE, val |->
          [project_name |-> cfg.name,
           version |-> cfg.version,
           project_root |-> cfg.project_root,
           profile_name |-> cfg.profile,
           source_paths |-> source_paths,
           macro_paths |-> macro_paths,
           data_paths |-> data_paths,
           test_paths |-> test_paths,
           analysis_paths |-> analysis_paths,
           docs_paths |-> value_or(cfg.docs_paths, all_source_paths),
           asset_paths |-> value_or(cfg.asset_paths, StrList(<<>>)),
           target_path |-> target_path,
           snapshot_paths |-> snapshot_paths,
           clean_targets |-> value_or(cfg.clean_targets, PyList(<<target_path>>)),
           log_path |-> value_or(cfg.log_path, PyStr("logs")),
           modules_path |-> value_or(cfg.modules_path, PyStr("dbt_modules")),
           quoting |-> IF IsNone(cfg.quoting) THEN EmptyDict ELSE cfg.quoting,
           models |-> cfg.models,
           on_run_start |-> value_or(cfg.on_run_start, StrList(<<>>)),
           on_run_end |-> value_or(cfg.on_run_end, StrList(<<>>)),
           seeds |-> cfg.seeds,
           snapshots |-> cfg.snapshots,
           sources |-> cfg.sources,
           vars |-> VarProvider(IF IsNone(cfg.vars) THEN EmptyDict ELSE cfg.vars),
           query_comment |-> _query_comment_from_cfg(cfg.query_comment),
           config_version |-> cfg.config_version]]

\* cls(...), lines 467-497: the Project of the fields and the collaborators
NewProject(fields, dbt_version, packages, selectors) ==
    [k \in DOMAIN fields \cup {"dbt_version", "packages", "selectors"} |->
        CASE k = "dbt_version" -> dbt_version
          [] k = "packages" -> packages
          [] k = "selectors" -> selectors
          [] OTHER -> fields[k]]

\* the query_comment of a Project is a QueryComment object, which is truthy:
\* line 550 always adds the 'query-comment' key
to_project_config(self, with_packages) ==
    LET result ==
            ("name" :> self.project_name)
         @@ ("version" :> self.version)
         @@ ("project-root" :> self.project_root)
         @@ ("profile" :> self.profile_name)
         @@ ("source-paths" :> self.source_paths)
         @@ ("macro-paths" :> self.macro_paths)
         @@ ("data-paths" :> self.data_paths)
         @@ ("test-paths" :> self.test_paths)
         @@ ("analysis-paths" :> self.analysis_paths)
         @@ ("docs-paths" :> self.docs_paths)
         @@ ("asset-paths" :> self.asset_paths)
         @@ ("target-path" :> self.target_path)
         @@ ("snapshot-paths" :> self.snapshot_paths)
         @@ ("clean-targets" :> self.clean_targets)
         @@ ("log-path" :> self.log_path)
         @@ ("quoting" :> self.quoting)
         @@ ("models" :> self.models)
         @@ ("on-run-start" :> self.on_run_start)
         @@ ("on-run-end" :> self.on_run_end)
         @@ ("seeds" :> self.seeds)
         @@ ("snapshots" :> self.snapshots)
         @@ ("sources" :> self.sources)
         @@ ("vars" :> VarProvider_to_dict(self.vars))
         @@ ("require-dbt-version" :>
                PyList([i \in DOMAIN self.dbt_version |->
                           PyStr(to_version_string(self.dbt_version[i]))]))
         @@ ("config-version" :> self.config_version)
         @@ ("query-comment" :> QueryComment_to_dict(self.query_comment))
    IN  IF with_packages
        THEN PackageConfig_to_dict(self.packages) @@ result
        ELSE result

\* Project.validate
validate(self) ==
    LET r == ProjectContract_from_dict(to_project_config(self, FALSE))
    IN  IF r.ok THEN NoError
        ELSE Raise("DbtProjectError", validator_error_message(r.exc))

\* Project.__eq__ of two Projects
Project_eq(self, other) ==
    to_project_config(self, TRUE) = to_project_config(other, TRUE)

(***************************************************************************)
(* _get_required_version, from_project_config and render_from_dict.        *)
(***************************************************************************)
DefaultRawVersion == PyStr(<<">=0">>)

\* a _get_required_version that never validates the version it parsed
_get_required_version_unverified(rendered_project, verify_version) ==
    LET required == Get(rendered_project, "require-dbt-version", None)
        parsed == _parse_versions(IF ~IsNone(required) THEN required
                                  ELSE PyStr(<<">=0">>))
    IN  IF parsed.ok THEN parsed
        ELSE [ok |-> FALSE,
              exc |-> Raise("DbtProjectError",
                            [template |-> "str(SemverException)",
                             version |-> required])]

_get_required_version(rendered_project, verify_version) ==
    LET required == Get(rendered_project, "require-dbt-version", None)
        dbt_raw_version == IF ~IsNone(required) THEN required
                           ELSE DefaultRawVersion
        parsed == _parse_versions(dbt_raw_version)
    IN  IF ~parsed.ok
        THEN [ok |-> FALSE,
              exc |-> Raise("DbtProjectError",
                            [template |-> "str(SemverException)",
                             version |-> dbt_raw_version])]
        ELSE IF verify_version /\ "name" \notin DOMAIN rendered_project
        THEN [ok |-> FALSE,
              exc |-> Raise("DbtProjectError",
                  [template |-> "Required \"name\" field not present in project"])]
        ELSE IF /\ verify_version
                /\ Raised(validate_version(parsed.val, rendered_project["name"]))
        THEN [ok |-> FALSE,
              exc |-> validate_version(parsed.val, rendered_project["name"])]
        ELSE parsed

\* a from_project_config that lets the RecursionException of deep_map escape
CycleDetected_uncaught(project_dict) ==
    Raise("RecursionException", [template |-> "Cycle detected in deep_map"])

\* the except clause of lines 382-386
CycleDetected(project_dict) ==
    Raise("DbtProjectError",
          [template |-> "Cycle detected: Project input has a reference to itself",
           project |-> project_dict])

\* the tail of from_project_config, lines 457-500, given the defaulted fields
Assemble(fields, dbt_version, packages_dict, selectors_dict) ==
    LET packages == package_config_from_data(packages_dict)
        selectors == selector_config_from_data(selectors_dict)
    IN  IF ~packages.ok THEN packages
        ELSE IF ~selectors.ok
        THEN [ok |-> FALSE,
              exc |-> Raise("DbtProjectError",
                            validator_error_message(selectors.exc))]
        ELSE LET built == NewProject(fields, dbt_version, packages.val,
                                     selectors.val)
             IN  IF Raised(validate(built))
                 THEN [ok |-> FALSE, exc |-> validate(built)]
                 ELSE [ok |-> TRUE, val |-> built]

\* required_dbt_version is None or [t |-> "versions", v |-> <the list>]
from_project_config(project_dict, packages_dict, selectors_dict, required_dbt_version) ==
    LET version == IF IsNone(required_dbt_version)
                   THEN _get_required_version(project_dict, FALSE)
                   ELSE [ok |-> TRUE, val |-> required_dbt_version.v]
        pre == _preprocess(project_dict)
        cfg == ProjectContract_from_dict(pre.val)
        fields == Defaults(cfg.val)
    IN  IF ~version.ok THEN version
        ELSE IF ~pre.ok
        THEN [ok |-> FALSE, exc |-> CycleDetected(project_dict)]
        ELSE IF ~cfg.ok
        THEN [ok |-> FALSE,
              exc |-> Raise("DbtProjectError", validator_error_message(cfg.exc))]
        ELSE IF ~fields.ok THEN fields
        ELSE Assemble(fields.val, version.val, packages_dict, selectors_dict)

\* the except clause of render_from_dict, lines 617-620
WithProjectPath(exc) ==
    IF exc.type = "DbtProjectError" /\ IsNone(exc.path)
    THEN [exc EXCEPT !.path = PyStr(ProjectYaml)]
    ELSE exc

(***************************************************************************)
(* VarProvider.vars_for (with dbt.utils.MultiDict) and get_selector.       *)
(***************************************************************************)
\* dbt.utils.MultiDict: a mapping over a list of sources, the last one added
\* winning a key collision
MultiDict(sources) == [t |-> "MultiDict", sources |-> sources]

MultiDict_add(m, source) == [m EXCEPT !.sources = Append(@, source)]

\* the mapping a MultiDict presents: its keys are those of all its sources;
\* a source that is no mapping makes every lookup raise TypeError
MultiDict_mapping(m) ==
    IF \E i \in DOMAIN m.sources : ~IsDict(m.sources[i])
    THEN [ok |-> FALSE,
          exc |-> Raise("TypeError", [template |-> "source is not a mapping"])]
    ELSE [ok |-> TRUE, val |->
          [k \in UNION {DOMAIN m.sources[i].v : i \in DOMAIN m.sources} |->
              LET last == CHOOSE i \in DOMAIN m.sources :
                             /\ k \in DOMAIN m.sources[i].v
                             /\ \A j \in DOMAIN m.sources :
                                   k \in DOMAIN m.sources[j].v => j <= i
              IN  m.sources[last].v[k]]]

\* a vars_for in which the global value wins a key collision
vars_for_global_wins(self, node, adapter_type) ==
    LET merged == MultiDict(<<Get(self.vars.v, node.package_name, EmptyDict)>>)
    IN  [self |-> self, ret |-> MultiDict_add(merged, self.vars)]

\* the call yields the provider as the call leaves it, and what it returns
vars_for(self, node, adapter_type) ==
    LET merged == MultiDict(<<self.vars>>)
    IN  [self |-> self,
         ret |-> MultiDict_add(merged,
                               Get(self.vars.v, node.package_name, EmptyDict))]

SelectorNotFound(name, known) ==
    Raise("RuntimeException",
          [template |-> "Could not find selector named {name}, expected one of {known}",
           name |-> name, known |-> known])

\* a get_selector whose error leaves out the known names
get_selector_anonymous(self, name) ==
    IF name \notin DOMAIN self.selectors
    THEN [ok |-> FALSE, exc |-> SelectorNotFound(name, {})]
    ELSE [ok |-> TRUE, val |-> self.selectors[name]]

get_selector(self, name) ==
    IF name \notin DOMAIN self.selectors
    THEN [ok |-> FALSE, exc |-> SelectorNotFound(name, DOMAIN self.selectors)]
    ELSE [ok |-> TRUE, val |-> self.selectors[name]]

(***************************************************************************)
(* The inputs: the calls made and the files, installed version and         *)
(* renderer they find.                                                     *)
(***************************************************************************)
BaseManifest ==
    ("name" :> PyStr("proj")) @@ ("version" :> PyStr("1.0"))
    @@ ("config-version" :> PyInt(2))

\* the optional path fields, with the value each has when the manifest sets it
GivenPaths ==
    ("source-paths" :> StrList(<<"src">>))
    @@ ("macro-paths" :> StrList(<<"mac">>))
    @@ ("data-paths" :> StrList(<<"dat">>))
    @@ ("test-paths" :> StrList(<<"tst">>))
    @@ ("analysis-paths" :> StrList(<<"ana">>))
    @@ ("snapshot-paths" :> StrList(<<"snap">>))
    @@ ("docs-paths" :> StrList(<<"docs">>))
    @@ ("asset-paths" :> StrList(<<"assets">>))
    @@ ("target-path" :> PyStr("out"))
    @@ ("clean-targets" :> StrList(<<"out", "tmp">>))
    @@ ("log-path" :> PyStr("log"))
    @@ ("modules-path" :> PyStr("mods"))

Restrict(f, S) == [k \in S |-> f[k]]

\* a key of a manifest is absent, or has one of the given values
Choices(key, values) == {<<>>} \cup {(key :> v) : v \in values}

\* the paths that docs-paths and clean-targets are made of, and these two
ComposedPaths ==
    {"source-paths", "data-paths", "snapshot-paths", "analysis-paths",
     "macro-paths", "docs-paths", "target-path", "clean-targets"}

\* each of the composed paths given or left out, and each of the others
PathManifests ==
    {Restrict(GivenPaths, S) @@ BaseManifest :
        S \in SUBSET ComposedPaths
              \cup SUBSET (DOMAIN GivenPaths \ ComposedPaths)}

\* the texts of a version specifier: the matcher may be left out
SpecTexts ==
    {PyStr(<<m \o VersionText(n)>>) : m \in Matchers \cup {""}, n \in Versions}

RequiredVersionInputs ==
    {PyList(<<>>)}
    \cup {PyList(<<a>>) : a \in SpecTexts}
    \cup {PyList(<<a, b>>) : a \in SpecTexts, b \in SpecTexts}
    \cup {None, PyStr(<<">0", "<2">>), PyStr(<<">2", "<1">>), PyStr(<<"1">>),
          PyList(<<PyStr(<<"latest">>)>>), PyList(<<PyStr(<<">0", "<2">>)>>),
          Template("required"), Template("undefined")}

Unsatisfiable == PyList(<<PyStr(<<">2">>), PyStr(<<"<1">>)>>)

VersionManifests ==
    {v @@ BaseManifest : v \in Choices("require-dbt-version", RequiredVersionInputs)}
    \* a manifest without a name
    \cup {v @@ ("version" :> PyStr("1.0")) @@ ("config-version" :> PyInt(2)) :
            v \in Choices("require-dbt-version", {Unsatisfiable})}

GateManifests ==
    {c @@ ("name" :> PyStr("proj")) @@ ("version" :> PyStr("1.0")) :
        c \in Choices("config-version",
                      {None, PyInt(1), PyInt(2), PyInt(3), PyStr("2"),
                       PyFloat(2), PyBool(TRUE)})}

VarsInputs ==
    {PyDict(a @@ b @@ p) :
        a \in Choices("a", {PyInt(1)}),
        b \in Choices("b", {PyInt(2)}),
        p \in Choices("pkg", {EmptyDict, PyDict("b" :> PyInt(9)),
                              PyDict("c" :> PyInt(3)),
                              PyDict(("b" :> PyInt(9)) @@ ("c" :> PyInt(3)))})}

VarsManifests == {("vars" :> v) @@ BaseManifest : v \in VarsInputs \cup {None}}

BlockInput ==
    PyDict(("pre-hook" :> PyStr("grant")) @@ ("vars" :> None)
           @@ ("post-hook" :> StrList(<<"a", "b">>)))

ExtraManifests ==
    {h @@ q @@ m @@ so @@ se @@ qu @@ pr @@ BaseManifest :
        h \in Choices("on-run-start",
                      {None, PyStr("hook"), StrList(<<"h1", "h2">>)}),
        q \in Choices("query-comment",
                      {PyStr(""), PyStr("run by dbt"), NoValue,
                       PyDict(("comment" :> PyStr("c")) @@ ("append" :> PyBool(TRUE)))}),
        m \in Choices("models", {None, BlockInput}),
        so \in Choices("sources", {None, EmptyDict}),
        se \in Choices("seeds", {PyDict("column_types" :> None)}),
        qu \in Choices("quoting", {PyDict("database" :> PyBool(TRUE))}),
        pr \in Choices("profile", {PyStr("default")})}

PackagesFiles ==
    {NoFile,
     File(PyDict("packages" :> PyList(<<PyDict("local" :> PyStr("../pkg"))>>))),
     File(PyDict("packages" :> PyStr("dbt-utils")))}

Selector(name, definition) ==
    PyDict(("name" :> PyStr(name)) @@ ("definition" :> PyStr(definition)))

SelectorsFiles ==
    {NoFile,
     File(PyDict("selectors" :>
            PyList(<<Selector("fast", "tag:fast"), Selector("full", "*")>>))),
     File(PyDict("selectors" :> PyStr("fast")))}

ProjectFiles(manifests) == {File(PyDict(m)) : m \in manifests}

NoFiles(project_file) ==
    [project |-> project_file, packages |-> NoFile, selectors |-> NoFile]

Renderer ==
    [version |-> None,
     context |-> ("required" :> Unsatisfiable)]

FromProjectRoot(verify_version) ==
    [fn |-> "from_project_root", project_root |-> ProjectRoot,
     verify_version |-> verify_version]

\* the calls of from_project_root
RootInputs ==
    \* the project manifest: missing, not a mapping, or of some config-version
    {[call |-> FromProjectRoot(FALSE), fs |-> NoFiles(f), installed |-> 1] :
        f \in {NoFile, File(StrList(<<"name", "proj">>))}
              \cup ProjectFiles(GateManifests)}
    \* the optional paths: each given or left out
    \cup {[call |-> FromProjectRoot(FALSE), fs |-> NoFiles(f), installed |-> 1] :
            f \in ProjectFiles(PathManifests)}
    \* the required version against the installed one
    \cup {[call |-> FromProjectRoot(v), fs |-> NoFiles(f), installed |-> i] :
            v \in BOOLEAN, f \in ProjectFiles(VersionManifests), i \in Versions}
    \* the packages and selectors manifests
    \cup {[call |-> FromProjectRoot(FALSE),
           fs |-> [project |-> f, packages |-> p, selectors |-> sel],
           installed |-> 1] :
            f \in ProjectFiles({BaseManifest, GivenPaths @@ BaseManifest}),
            p \in PackagesFiles, sel \in SelectorsFiles}
    \* vars, hooks, resource blocks, query comment, quoting
    \cup {[call |-> FromProjectRoot(FALSE), fs |-> NoFiles(f), installed |-> 1] :
            f \in ProjectFiles(VarsManifests \cup ExtraManifests)}

\* the rendered manifests handed to from_project_config directly
DirectManifests ==
    {r @@ x @@ BaseManifest :
        r \in Choices("project-root", {PyStr(ProjectRoot)}),
        x \in Choices("models", {BackRef, PyDict("nested" :> BackRef), None})
              \cup Choices("on-run-end", {PyList(<<BackRef>>)})
              \cup Choices("config-version", {PyInt(3)})
              \cup Choices("license", {PyStr("MIT")})
              \cup Choices("require-dbt-version", {PyStr(<<"latest">>)})}

ConfigInputs ==
    {[call |-> [fn |-> "from_project_config", project_dict |-> d,
                packages_dict |-> None, selectors_dict |-> None,
                required_dbt_version |-> None],
      fs |-> NoFiles(NoFile), installed |-> 1] : d \in DirectManifests}

RECURSIVE SeqsUpTo(_, _)
\* the sequences over S of length at most n
SeqsUpTo(S, n) ==
    IF n = 0 THEN {<<>>}
    ELSE LET shorter == SeqsUpTo(S, n - 1)
         IN  shorter \cup {Append(q, x) : q \in shorter, x \in S}

\* the calls of validate_version
VersionInputs ==
    {[call |-> [fn |-> "validate_version", required |-> r,
                project_name |-> PyStr("proj")],
      fs |-> NoFiles(NoFile), installed |-> i] :
        r \in SeqsUpTo(VersionSpecifiers, MaxSpecs), i \in Versions}

Inputs == RootInputs \cup ConfigInputs \cup VersionInputs

(***************************************************************************)
(* The state machine: one call per behaviour, stepping through             *)
(* from_project_root (partial_load, PartialProject.render,                 *)
(* render_from_dict, from_project_config), then the methods of the         *)
(* Project it built.                                                       *)
(***************************************************************************)
Unset == [t |-> "unset"]
NoCall == [op |-> "none"]

InitLoc ==
    [partial |-> Unset, packages_dict |-> Unset, selectors_dict |-> Unset,
     rendered_project |-> Unset, rendered_packages |-> Unset,
     rendered_selectors |-> Unset, dbt_version |-> Unset,
     project_dict |-> Unset, cfg |-> Unset, fields |-> Unset,
     packages |-> Unset, selectors |-> Unset]

Init ==
    \E input \in Inputs :
        /\ call = input.call
        /\ fs = input.fs
        /\ installed = input.installed
        /\ renderer = Renderer
        /\ pc = input.call.fn
        /\ log = <<>>
        /\ loc = InitLoc
        /\ project = None
        /\ err = NoError
        /\ ret = NoCall

\* the exception leaves the call
Fail(step, exc) ==
    /\ err' = exc
    /\ pc' = "error"
    /\ log' = Append(log, step)
    /\ UNCHANGED <<loc, project, renderer>>

\* within the try block of render_from_dict a DbtProjectError gets the path
InRenderFromDict(exc) ==
    IF call.fn = "from_project_root" THEN WithProjectPath(exc) ELSE exc

Goto(step, next) ==
    /\ pc' = next
    /\ log' = Append(log, step)
    /\ UNCHANGED <<err, project>>

\* partial_load, lines 626-627
ReadProject ==
    /\ pc = "from_project_root"
    /\ LET r == _raw_project_from(call.project_root)
       IN  IF r.ok
           THEN /\ Goto("read_project", "check_config_version")
                /\ loc' = [loc EXCEPT !.project_dict = r.val]
                /\ UNCHANGED renderer
           ELSE Fail("read_project", r.exc)
    /\ UNCHANGED <<fs, installed, call, ret>>

\* partial_load, lines 629-645
CheckConfigVersion ==
    /\ pc = "check_config_version"
    /\ IF ConfigVersionAccepted(ConfigVersionOf(loc.project_dict))
       THEN /\ Goto("check_config_version", "set_renderer_version")
            /\ loc' = [loc EXCEPT
                          !.partial = PartialProject(loc.project_dict,
                                                     call.verify_version),
                          !.project_dict = Unset]
            /\ UNCHANGED renderer
       ELSE Fail("check_config_version",
                 InvalidConfigVersion(ConfigVersionOf(loc.project_dict)))
    /\ UNCHANGED <<fs, installed, call, ret>>

\* from_project_root, line 656
SetRendererVersion ==
    /\ pc = "set_renderer_version"
    /\ Goto("set_renderer_version", "read_packages")
    /\ renderer' = [renderer EXCEPT !.version = loc.partial.config_version]
    /\ UNCHANGED <<fs, installed, call, ret, loc>>

\* a render that goes on to the renderer with the selector manifest unread
ReadPackages_then_render ==
    /\ pc = "read_packages"
    /\ Goto("read_packages", "render_project")
    /\ loc' = [loc EXCEPT
                  !.packages_dict = package_data_from_root(loc.partial.project_root),
                  !.selectors_dict = None]
    /\ UNCHANGED <<fs, installed, call, ret, renderer>>

\* PartialProject.render, line 229
ReadPackages ==
    /\ pc = "read_packages"
    /\ Goto("read_packages", "read_selectors")
    /\ loc' = [loc EXCEPT
                  !.packages_dict = package_data_from_root(loc.partial.project_root)]
    /\ UNCHANGED <<fs, installed, call, ret, renderer>>

\* PartialProject.render, line 230
ReadSelectors ==
    /\ pc = "read_selectors"
    /\ Goto("read_selectors", "render_project")
    /\ loc' = [loc EXCEPT
                  !.selectors_dict = selector_data_from_root(loc.partial.project_root)]
    /\ UNCHANGED <<fs, installed, call, ret, renderer>>

\* render_from_dict, lines 599-600
RenderProject ==
    /\ pc = "render_project"
    /\ LET r == render_data(renderer, PyDict(loc.partial.project_dict))
       IN  IF r.ok
           THEN /\ Goto("render_project", "render_packages")
                /\ loc' = [loc EXCEPT !.rendered_project =
                              ("project-root" :> PyStr(loc.partial.project_root))
                              @@ r.val.v]
                /\ UNCHANGED renderer
           ELSE Fail("render_project", r.exc)
    /\ UNCHANGED <<fs, installed, call, ret>>

\* render_from_dict, lines 601-602
RenderPackages ==
    /\ pc = "render_packages"
    /\ LET r == render_data(renderer, loc.packages_dict)
       IN  IF r.ok
           THEN /\ Goto("render_packages", "render_selectors")
                /\ loc' = [loc EXCEPT !.rendered_packages = r.val]
                /\ UNCHANGED renderer
           ELSE Fail("render_packages", r.exc)
    /\ UNCHANGED <<fs, installed, call, ret>>

\* render_from_dict, lines 603-604
RenderSelectors ==
    /\ pc = "render_selectors"
    /\ LET r == render_data(renderer, loc.selectors_dict)
       IN  IF r.ok
           THEN /\ Goto("render_selectors", "get_required_version")
                /\ loc' = [loc EXCEPT !.rendered_selectors = r.val]
                /\ UNCHANGED renderer
           ELSE Fail("render_selectors", r.exc)
    /\ UNCHANGED <<fs, installed, call, ret>>

\* render_from_dict, lines 607-609
GetRequiredVersion ==
    /\ pc = "get_required_version"
    /\ LET r == _get_required_version(loc.rendered_project,
                                      loc.partial.verify_version)
       IN  IF r.ok
           THEN /\ Goto("get_required_version", "preprocess")
                /\ loc' = [loc EXCEPT !.dbt_version = r.val,
                                      !.project_dict = loc.rendered_project]
                /\ UNCHANGED renderer
           ELSE Fail("get_required_version", InRenderFromDict(r.exc))
    /\ UNCHANGED <<fs, installed, call, ret>>

\* from_project_config called by itself, lines 375-378
ConfigRequiredVersion ==
    /\ pc = "from_project_config"
    /\ LET r == IF IsNone(call.required_dbt_version)
                THEN _get_required_version(call.project_dict, FALSE)
                ELSE [ok |-> TRUE, val |-> call.required_dbt_version.v]
       IN  IF r.ok
           THEN /\ Goto("get_required_version", "preprocess")
                /\ loc' = [loc EXCEPT
                              !.dbt_version = r.val,
                              !.project_dict = call.project_dict,
                              !.rendered_project = call.project_dict,
                              !.rendered_packages = call.packages_dict,
                              !.rendered_selectors = call.selectors_dict]
                /\ UNCHANGED renderer
           ELSE Fail("get_required_version", r.exc)
    /\ UNCHANGED <<fs, installed, call, ret>>

\* from_project_config, lines 380-386
Preprocess ==
    /\ pc = "preprocess"
    /\ LET r == _preprocess(loc.project_dict)
       IN  IF r.ok
           THEN /\ Goto("preprocess", "validate_schema")
                /\ loc' = [loc EXCEPT !.project_dict = r.val]
                /\ UNCHANGED renderer
           ELSE Fail("preprocess",
                     InRenderFromDict(CycleDetected(loc.project_dict)))
    /\ UNCHANGED <<fs, installed, call, ret>>

\* from_project_config, lines 387-390
ValidateSchema ==
    /\ pc = "validate_schema"
    /\ LET r == ProjectContract_from_dict(loc.project_dict)
       IN  IF r.ok
           THEN /\ Goto("validate_schema", "defaults")
                /\ loc' = [loc EXCEPT !.cfg = r.val]
                /\ UNCHANGED renderer
           ELSE Fail("validate_schema",
                     InRenderFromDict(Raise("DbtProjectError",
                                            validator_error_message(r.exc))))
    /\ UNCHANGED <<fs, installed, call, ret>>

\* from_project_config, lines 392-455
ApplyDefaults ==
    /\ pc = "defaults"
    /\ LET r == Defaults(loc.cfg)
       IN  IF r.ok
           THEN /\ Goto("defaults", "parse_packages")
                /\ loc' = [loc EXCEPT !.fields = r.val]
                /\ UNCHANGED renderer
           ELSE Fail("defaults", InRenderFromDict(r.exc))
    /\ UNCHANGED <<fs, installed, call, ret>>

\* from_project_config, lines 457-460
ParsePackages ==
    /\ pc = "parse_packages"
    /\ LET r == package_config_from_data(loc.rendered_packages)
       IN  IF r.ok
           THEN /\ Goto("parse_packages", "parse_selectors")
                /\ loc' = [loc EXCEPT !.packages = r.val]
                /\ UNCHANGED renderer
           ELSE Fail("parse_packages", InRenderFromDict(r.exc))
    /\ UNCHANGED <<fs, installed, call, ret>>

\* from_project_config, lines 462-465
ParseSelectors ==
    /\ pc = "parse_selectors"
    /\ LET r == selector_config_from_data(loc.rendered_selectors)
       IN  IF r.ok
           THEN /\ Goto("parse_selectors", "self_validate")
                /\ loc' = [loc EXCEPT !.selectors = r.val]
                /\ UNCHANGED renderer
           ELSE Fail("parse_selectors",
                     InRenderFromDict(Raise("DbtProjectError",
                                            validator_error_message(r.exc))))
    /\ UNCHANGED <<fs, installed, call, ret>>

\* from_project_config, lines 467-500
BuildAndValidate ==
    /\ pc = "self_validate"
    /\ LET built == NewProject(loc.fields, loc.dbt_version, loc.packages,
                               loc.selectors)
       IN  IF ~Raised(validate(built))
           THEN /\ pc' = "done"
                /\ log' = Append(log, "self_validate")
                /\ project' = built
                /\ UNCHANGED <<err, loc, renderer>>
           ELSE Fail("self_validate", InRenderFromDict(validate(built)))
    /\ UNCHANGED <<fs, installed, call, ret>>

(***************************************************************************)
(* The calls on the Project that was built (one method is called, only     *)
(* vars_for repeatedly), and validate_version called by itself.            *)
(***************************************************************************)
SelectorNames == {"fast", "full", "nightly"}
PackageNames == {"pkg", "other", "a"}

Node(package_name) ==
    [fqn |-> <<package_name, "model">>, resource_type |-> "model",
     package_name |-> package_name]

ToProjectConfig ==
    /\ pc = "done"
    /\ ret = NoCall
    /\ \E with_packages \in BOOLEAN :
          ret' = [op |-> "to_project_config", with_packages |-> with_packages,
                  before |-> project,
                  outcome |-> to_project_config(project, with_packages)]
    /\ UNCHANGED <<fs, installed, renderer, pc, log, loc, project, err, call>>

GetSelector ==
    /\ pc = "done"
    /\ ret = NoCall
    /\ \E name \in SelectorNames :
          ret' = [op |-> "get_selector", name |-> name, before |-> project,
                  outcome |-> get_selector(project, name)]
    /\ UNCHANGED <<fs, installed, renderer, pc, log, loc, project, err, call>>

\* vars_for may be called again and again
VarsFor ==
    /\ pc = "done"
    /\ ret.op \in {"none", "vars_for"}
    /\ \E package_name \in PackageNames :
          LET r == vars_for(project.vars, Node(package_name), "postgres")
          IN  /\ project' = [project EXCEPT !.vars = r.self]
              /\ ret' = [op |-> "vars_for", node |-> Node(package_name),
                         before |-> project, outcome |-> r.ret]
    /\ UNCHANGED <<fs, installed, renderer, pc, log, loc, err, call>>

\* from_project_config on the canonical form, packages included
Reresolve ==
    /\ pc = "done"
    /\ ret = NoCall
    /\ ret' = [op |-> "from_project_config",
               project_dict |-> to_project_config(project, TRUE),
               before |-> project,
               outcome |-> from_project_config(to_project_config(project, TRUE),
                                               None, None, None)]
    /\ UNCHANGED <<fs, installed, renderer, pc, log, loc, project, err, call>>

\* Project is a dataclass that is not frozen: a copy of the Project with one
\* field given anew (dataclasses.replace), or the Project itself
Replaced(self) ==
    {self,
     [self EXCEPT !.source_paths = PyStr("models")],
     [self EXCEPT !.project_name = None]}

\* Project.validate called on such a Project
Validate ==
    /\ pc = "done"
    /\ ret = NoCall
    /\ \E self \in Replaced(project) :
          ret' = [op |-> "validate", self |-> self, before |-> project,
                  outcome |-> validate(self)]
    /\ UNCHANGED <<fs, installed, renderer, pc, log, loc, project, err, call>>

ValidateVersion ==
    /\ pc = "validate_version"
    /\ err' = validate_version(call.required, call.project_name)
    /\ pc' = IF Raised(err') THEN "error" ELSE "returned"
    /\ log' = Append(log, "validate_version")
    /\ UNCHANGED <<fs, installed, renderer, loc, project, call, ret>>

Next ==
    \/ ReadProject
    \/ CheckConfigVersion
    \/ SetRendererVersion
    \/ ReadPackages
    \/ ReadSelectors
    \/ RenderProject
    \/ RenderPackages
    \/ RenderSelectors
    \/ GetRequiredVersion
    \/ ConfigRequiredVersion
    \/ Preprocess
    \/ ValidateSchema
    \/ ApplyDefaults
    \/ ParsePackages
    \/ ParseSelectors
    \/ BuildAndValidate
    \/ ToProjectConfig
    \/ GetSelector
    \/ VarsFor
    \/ Reresolve
    \/ Validate
    \/ ValidateVersion

Spec == Init /\ [][Next]_vars

(***************************************************************************)
(* The properties.                                                         *)
(***************************************************************************)
Last(q) == q[Len(q)]

RenderSteps == {"render_project", "render_packages", "render_selectors"}

ImpossibleTemplate == "The package version requirement can never be satisfied"
InvalidTemplate == "This version of dbt is not supported with the package"
ConfigVersionTemplate == "Invalid config version: {config_version}, expected 2"

\* the config-version of the raw manifest is the number 2
RawConfigVersionIsTwo ==
    /\ "config-version" \in DOMAIN fs.project.yaml.v
    /\ fs.project.yaml.v["config-version"].t \in {"int", "float"}
    /\ fs.project.yaml.v["config-version"].v = 2

\* C1: in from_project_root, once the project manifest is read as a mapping,
\* partial_load fails with the config-version project error exactly when the
\* raw config-version is not 2 (an absent key is reported as 1), and the run
\* that fails so consists of the read and the check alone: no render step
\* comes before the failure and no step at all after it.
C1_ConfigVersionGate ==
    (call.fn = "from_project_root" /\ "check_config_version" \in Range(log))
    => IF RawConfigVersionIsTwo
       THEN ~(Raised(err) /\ err.msg.template = ConfigVersionTemplate)
       ELSE /\ pc = "error"
            /\ err.type = "DbtProjectError"
            /\ err.msg.template = ConfigVersionTemplate
            /\ err.msg.config_version =
                  Get(fs.project.yaml.v, "config-version", PyInt(1))
            /\ log = <<"read_project", "check_config_version">>
            /\ renderer = Renderer
            /\ project = None

\* a manifest without config-version is turned down as version 1
C1_Witness ==
    /\ call.fn = "from_project_root"
    /\ pc = "error"
    /\ log = <<"read_project", "check_config_version">>
    /\ "config-version" \notin DOMAIN fs.project.yaml.v
    /\ err.msg.template = ConfigVersionTemplate
    /\ err.msg.config_version = PyInt(1)

\* the required set admits some version
Satisfiable(required) ==
    \E p \in Points : \A i \in DOMAIN required : Admits(required[i], p)

\* the installed version lies in every range of the required set
InstalledSatisfies(required) ==
    \A i \in DOMAIN required : Admits(required[i], 2 * installed)

\* C2: validate_version raises the "impossible constraint" error, naming the
\* package and the constraint strings, whenever the required set is
\* unsatisfiable, whatever the installed version; otherwise the "incompatible
\* installed version" error when the installed version is outside some range;
\* otherwise nothing.  The two errors carry different messages.
C2_TwoStageCheck ==
    (call.fn = "validate_version" /\ pc # "validate_version")
    => /\ ~Satisfiable(call.required) =>
            /\ pc = "error"
            /\ err.type = "DbtProjectError"
            /\ err.msg.template = ImpossibleTemplate
            /\ err.msg.package = call.project_name
            /\ err.msg.version_spec = VersionStrings(call.required)
            /\ "installed" \notin DOMAIN err.msg
       /\ (Satisfiable(call.required) /\ ~InstalledSatisfies(call.required)) =>
            /\ pc = "error"
            /\ err.type = "DbtProjectError"
            /\ err.msg.template = InvalidTemplate
            /\ err.msg.package = call.project_name
            /\ err.msg.installed = <<"=" \o VersionText(installed)>>
            /\ err.msg.version_spec = VersionStrings(call.required)
       /\ (Satisfiable(call.required) /\ InstalledSatisfies(call.required)) =>
            /\ pc = "returned"
            /\ err = NoError
       /\ ImpossibleTemplate # InvalidTemplate

\* an unsatisfiable set that the installed version does not satisfy either
C2_Witness ==
    /\ call.fn = "validate_version"
    /\ pc = "error"
    /\ ~Satisfiable(call.required)
    /\ ~InstalledSatisfies(call.required)
    /\ err.msg.template = ImpossibleTemplate

\* the required-version set of the rendered project manifest
RenderedRequired ==
    LET required == Get(loc.rendered_project, "require-dbt-version", None)
    IN  _parse_versions(IF IsNone(required) THEN PyStr(<<">=0">>) ELSE required)

RenderedUnsatisfiable == RenderedRequired.ok /\ ~Satisfiable(RenderedRequired.val)

\* C3 as stated: every resolution of a manifest whose rendered
\* require-dbt-version set is unsatisfiable fails with the
\* unsatisfiable-version error.
C3_Original ==
    (/\ call.fn = "from_project_root"
     /\ "get_required_version" \in Range(log)
     /\ RenderedUnsatisfiable)
    => (pc = "error" /\ err.msg.template = ImpossibleTemplate)

\* C3, amended: a resolution with verify_version set of a manifest that has a
\* name and whose rendered require-dbt-version set is unsatisfiable fails in
\* the version step with the unsatisfiable-version error, whatever the
\* installed version; with verify_version unset no version error is raised at
\* all; the set is the one parsed from the rendered manifest, '>=0.0.0' when
\* the key is absent.
C3_VerifiedUnsatisfiable ==
    (call.fn = "from_project_root" /\ "get_required_version" \in Range(log))
    => /\ (/\ call.verify_version
           /\ "name" \in DOMAIN loc.rendered_project
           /\ RenderedUnsatisfiable)
          => /\ pc = "error"
             /\ Last(log) = "get_required_version"
             /\ err.type = "DbtProjectError"
             /\ err.msg.template = ImpossibleTemplate
             /\ err.msg.version_spec = VersionStrings(RenderedRequired.val)
       /\ ~call.verify_version
          => ~(Raised(err) /\ err.msg.template \in {ImpossibleTemplate, InvalidTemplate})
       /\ ~(pc = "error" /\ Last(log) = "get_required_version")
          => /\ loc.dbt_version = RenderedRequired.val
             /\ "require-dbt-version" \notin DOMAIN loc.rendered_project
                => loc.dbt_version = <<[matcher |-> ">=", major |-> 0]>>

\* the unsatisfiable set comes out of a template, and is rejected
C3_Witness ==
    /\ call.fn = "from_project_root"
    /\ call.verify_version
    /\ pc = "error"
    /\ err.msg.template = ImpossibleTemplate
    /\ Get(fs.project.yaml.v, "require-dbt-version", None) = Template("required")
    /\ installed = 1

PkgExample ==
    ("a" :> PyInt(1)) @@ ("b" :> PyInt(2)) @@ ("pkg" :> PyDict("b" :> PyInt(9)))

C5_Defaults ==
    pc = "done"
    => LET Absent(k) == k \notin DOMAIN loc.project_dict
       IN  /\ Absent("source-paths") => project.source_paths = StrList(<<"models">>)
           /\ Absent("macro-paths") => project.macro_paths = StrList(<<"macros">>)
           /\ Absent("data-paths") => project.data_paths = StrList(<<"data">>)
           /\ Absent("test-paths") => project.test_paths = StrList(<<"test">>)
           /\ Absent("analysis-paths") => project.analysis_paths = StrList(<<>>)
           /\ Absent("snapshot-paths")
              => project.snapshot_paths = StrList(<<"snapshots">>)
           /\ Absent("asset-paths") => project.asset_paths = StrList(<<>>)
           /\ Absent("target-path") => project.target_path = PyStr("target")
           /\ Absent("log-path") => project.log_path = PyStr("logs")
           /\ Absent("on-run-start") => project.on_run_start = StrList(<<>>)
           /\ Absent("on-run-end") => project.on_run_end = StrList(<<>>)
           /\ Absent("docs-paths")
              => project.docs_paths.v =
                    project.source_paths.v \o project.data_paths.v
                    \o project.snapshot_paths.v \o project.analysis_paths.v
                    \o project.macro_paths.v
           /\ Absent("clean-targets")
              => project.clean_targets = PyList(<<project.target_path>>)
           /\ \A f \in {"source_paths", "macro_paths", "data_paths",
                        "test_paths", "analysis_paths", "docs_paths",
                        "asset_paths", "snapshot_paths", "clean_targets"} :
                 IsStrList(project[f])
           /\ IsStr(project.target_path) /\ IsStr(project.log_path)

\* docs-paths and clean-targets left out, some of their parts given
C5_Witness ==
    /\ pc = "done"
    /\ call.fn = "from_project_root"
    /\ {"docs-paths", "clean-targets", "macro-paths", "analysis-paths"}
          \cap DOMAIN loc.project_dict = {}
    /\ {"source-paths", "snapshot-paths", "target-path"}
          \subseteq DOMAIN loc.project_dict
    /\ project.docs_paths = StrList(<<"src", "data", "snap", "macros">>)
    /\ project.clean_targets = StrList(<<"out">>)

\* C6: for every resolved configuration C the schema validator accepts
\* to_project_config(C), and from_project_config of
\* to_project_config(C, with_packages=True) succeeds with a configuration
\* equal to C.
C6_RoundTrip ==
    ret.op = "from_project_config"
    => /\ ProjectContract_from_dict(to_project_config(ret.before, FALSE)).ok
       /\ ret.project_dict = to_project_config(ret.before, TRUE)
       /\ ret.outcome.ok
       /\ Project_eq(ret.outcome.val, ret.before)

\* the attribute of Project and the key of the canonical form it belongs to
CanonicalKey ==
    ("project_name" :> "name") @@ ("version" :> "version")
    @@ ("project_root" :> "project-root") @@ ("profile_name" :> "profile")
    @@ ("source_paths" :> "source-paths") @@ ("macro_paths" :> "macro-paths")
    @@ ("data_paths" :> "data-paths") @@ ("test_paths" :> "test-paths")
    @@ ("analysis_paths" :> "analysis-paths") @@ ("docs_paths" :> "docs-paths")
    @@ ("asset_paths" :> "asset-paths") @@ ("target_path" :> "target-path")
    @@ ("snapshot_paths" :> "snapshot-paths")
    @@ ("clean_targets" :> "clean-targets") @@ ("log_path" :> "log-path")
    @@ ("modules_path" :> "modules-path") @@ ("quoting" :> "quoting")
    @@ ("models" :> "models") @@ ("on_run_start" :> "on-run-start")
    @@ ("on_run_end" :> "on-run-end") @@ ("seeds" :> "seeds")
    @@ ("snapshots" :> "snapshots") @@ ("sources" :> "sources")
    @@ ("vars" :> "vars") @@ ("dbt_version" :> "require-dbt-version")
    @@ ("query_comment" :> "query-comment")
    @@ ("config_version" :> "config-version")

\* the value of an attribute as a canonical form writes it
CanonicalValue(self, field) ==
    CASE field = "vars" -> VarProvider_to_dict(self.vars)
      [] field = "query_comment" -> QueryComment_to_dict(self.query_comment)
      [] field = "dbt_version" ->
            PyList([i \in DOMAIN self.dbt_version |->
                       PyStr(to_version_string(self.dbt_version[i]))])
      [] OTHER -> self[field]

\* C7: the canonical form holds, for every field of the configuration, its
\* hyphenated key with the field's value (and the packages when
\* with_packages is set), so that a configuration differing in one field, the
\* modules directory say, has a different canonical form; the call leaves
\* the configuration as it was.
C7_EveryField ==
    ret.op = "to_project_config"
    => /\ project = ret.before
       /\ \A field \in DOMAIN CanonicalKey :
             /\ CanonicalKey[field] \in DOMAIN ret.outcome
             /\ ret.outcome[CanonicalKey[field]] = CanonicalValue(project, field)
       /\ ret.with_packages
          => /\ "packages" \in DOMAIN ret.outcome
             /\ ret.outcome["packages"] = PackageConfig_to_dict(project.packages)["packages"]
       /\ to_project_config([project EXCEPT !.modules_path = PyStr("elsewhere")],
                            ret.with_packages) # ret.outcome

\* C8: get_selector returns the stored selection spec of a known name; for
\* any other name it fails with an error that carries the requested name and
\* all the known selector names; the configuration is unchanged by the call.
C8_GetSelector ==
    ret.op = "get_selector"
    => /\ project = ret.before
       /\ IF ret.name \in DOMAIN project.selectors
          THEN /\ ret.outcome.ok
               /\ ret.outcome.val = project.selectors[ret.name]
          ELSE /\ ~ret.outcome.ok
               /\ ret.outcome.exc.type = "RuntimeException"
               /\ ret.outcome.exc.msg.name = ret.name
               /\ ret.outcome.exc.msg.known = DOMAIN project.selectors

\* "nightly" is asked for when "fast" and "full" are known
C8_Witness ==
    /\ ret.op = "get_selector"
    /\ ret.name = "nightly"
    /\ DOMAIN ret.before.selectors = {"fast", "full"}
    /\ ~ret.outcome.ok
    /\ ret.outcome.exc.msg.known = {"fast", "full"}

CycleTemplate == "Cycle detected: Project input has a reference to itself"

\* C9: when the traversal of _preprocess finds a self-referential node in
\* the rendered project, from_project_config ends in the 'Cycle detected'
\* DbtProjectError, raised by the preprocessing step, after which neither
\* schema validation nor any later step has run.
C9_CycleRejected ==
    (/\ "preprocess" \in Range(log)
     /\ ~_preprocess(loc.rendered_project).ok)
    => /\ pc = "error"
       /\ err.type = "DbtProjectError"
       /\ err.msg.template = CycleTemplate
       /\ Last(log) = "preprocess"
       /\ Range(log) \cap {"validate_schema", "defaults", "parse_packages",
                           "parse_selectors", "self_validate"} = {}
       /\ loc.cfg = Unset /\ loc.fields = Unset /\ project = None

\* the self-reference sits two levels down in the models block
C9_Witness ==
    /\ call.fn = "from_project_config"
    /\ "models" \in DOMAIN call.project_dict
    /\ call.project_dict["models"] = PyDict("nested" :> BackRef)
    /\ pc = "error"
    /\ err.msg.template = CycleTemplate

\* the steps of from_project_root, in the order of the code
StepOrder ==
    <<"read_project", "check_config_version", "set_renderer_version",
      "read_packages", "read_selectors", "render_project", "render_packages",
      "render_selectors", "get_required_version", "preprocess",
      "validate_schema", "defaults", "parse_packages", "parse_selectors",
      "self_validate">>

IsPrefix(p, q) == Len(p) <= Len(q) /\ p = SubSeq(q, 1, Len(p))

\* a step that runs no step of the resolver
ResolverAtRest == UNCHANGED <<pc, log, loc, err, renderer>>

\* C10: in every run of from_project_root the steps taken are an initial
\* part of the one fixed order: the three manifests are read before the
\* renderer is applied to any, rendering precedes the extraction of the
\* required version, which precedes preprocessing, schema validation,
\* defaulting, the parsing of packages and selectors and the
\* self-validation; the Project exists only when all of them have run; and
\* once the Project is built or an error is raised no step runs again.
C10_FixedOrder ==
    /\ [](call.fn = "from_project_root"
          => /\ IsPrefix(log, StepOrder)
             /\ pc = "done" => log = StepOrder
             /\ project # None <=> pc = "done"
             /\ pc = "error" <=> Raised(err))
    /\ [][(pc \in {"done", "error"}) => ResolverAtRest]_vars

\* a run that read all three manifests and went through every step
C10_Witness ==
    /\ call.fn = "from_project_root"
    /\ pc = "done"
    /\ log = StepOrder
    /\ fs.packages.exists /\ fs.selectors.exists
    /\ DOMAIN project.selectors = {"fast", "full"}

\* C11: the error a failing self-validation (Project.validate) raises differs
\* from the schema-validation error that from_project_config raises for a
\* manifest with the same defect, so that the two can be told apart.
C11_DistinctSelfValidation ==
    (ret.op = "validate" /\ Raised(ret.outcome))
    => LET manifest == to_project_config(ret.self, FALSE)
           authoring == from_project_config(manifest, None, None, None)
       IN  ~authoring.ok => ret.outcome # authoring.exc

\* C12: the manifest that _preprocess returns is the rendered manifest with
\* the rule of each registered path applied and every other value as it was:
\* at on-run-start, on-run-end and the pre-hook and post-hook of the blocks
\* models, seeds, snapshots and sources, None becomes [], a string s becomes
\* [s] and a list stays; at these blocks themselves, at their vars and at
\* column_types of seeds, None becomes {}.
C12_RuleTable ==
    LET ListRule(v) == IF IsNone(v) THEN PyList(<<>>)
                       ELSE IF IsStr(v) THEN PyList(<<v>>) ELSE v
        MappingRule(v) == IF IsNone(v) THEN EmptyDict ELSE v
        InBlock(block, k, v) ==
            IF k \in {"pre-hook", "post-hook"} THEN ListRule(v)
            ELSE IF k = "vars" \/ (block = "seeds" /\ k = "column_types")
            THEN MappingRule(v)
            ELSE v
        AtTop(k, v) ==
            IF k \in {"on-run-start", "on-run-end"} THEN ListRule(v)
            ELSE IF k \in {"models", "seeds", "snapshots", "sources"}
            THEN IF IsDict(MappingRule(v))
                 THEN PyDict([j \in DOMAIN MappingRule(v).v |->
                                 InBlock(k, j, MappingRule(v).v[j])])
                 ELSE v
            ELSE v
    IN  (/\ "preprocess" \in Range(log)
         /\ ~(pc = "error" /\ Last(log) = "preprocess"))
        => loc.project_dict =
              [k \in DOMAIN loc.rendered_project |->
                  AtTop(k, loc.rendered_project[k])]

====
